---- MODULE Spec2Model ----
(***************************************************************************)
(* Model of the EcoCare spoof app (src/main.py): the device list of        *)
(* SpoofApp, the table that displays it, the socket.io client it talks to, *)
(* and the handlers that change them.                                      *)
(***************************************************************************)
EXTENDS Integers, Sequences, FiniteSets, TLC

VARIABLES
    devices,          \* self.devices: list of device dicts
    table,            \* self.table: rows of cell texts (QTableWidget items)
    internal_change,  \* self.internal_change
    connected,        \* self.connected
    sio_connected,    \* the socket.io client's own connection state
    update_pending,   \* queued deliveries of the update_table signal
    calls,            \* sio.emit calls made by the last handler
    error,            \* exception that escaped the last handler
    shown,            \* text of the item the last handle_cell_change ran on
    last,             \* which handler ran last, and on what
    update_thread     \* the socket.io thread inside receive_iot_device_update

vars == <<devices, table, internal_change, connected, sio_connected,
          update_pending, calls, error, shown, last, update_thread>>

-----------------------------------------------------------------------------
(* Bounds *)

\* longest remote snapshot (connected_iot_devices payload)
MaxSnapshotLen == 2
\* most rows in unconnected_iot_devices.csv
MaxBulk == 2
\* most update_table signals queued and not yet delivered
MaxPending == 1

-----------------------------------------------------------------------------
(* JSON values: [k |-> kind, v |-> payload] *)

JStr(s) == [k |-> "string", v |-> s]
JNum(n) == [k |-> "number", v |-> n]
JBool(b) == [k |-> "boolean", v |-> b]
JNull == [k |-> "null", v |-> "null"]
JArr(a) == [k |-> "array", v |-> a]
JObj(o) == [k |-> "object", v |-> o]

Entry(f, d, val) == JObj([fieldName |-> JStr(f), datatype |-> JStr(d), value |-> val])

Temp21 == JArr(<<Entry("temp", "number", JNum(21))>>)
Temp25 == JArr(<<Entry("temp", "number", JNum(25))>>)
PowerTrue == JArr(<<Entry("power", "boolean", JBool(TRUE))>>)
PowerStrFalse == JArr(<<Entry("power", "boolean", JStr("false"))>>)
TempUnit == JArr(<<JObj([fieldName |-> JStr("temp"), datatype |-> JStr("number"),
                         value |-> JNum(21), unit |-> JStr("C")])>>)
NoValue == JArr(<<JObj([fieldName |-> JStr("temp"), datatype |-> JStr("number")])>>)
NullValue == JArr(<<Entry("temp", "number", JNull)>>)
NotArray == Entry("temp", "number", JNum(25))
NumName == JArr(<<JObj([fieldName |-> JNum(7), datatype |-> JStr("number"),
                        value |-> JNum(21)])>>)

\* json.loads on the texts an operator types or a cell shows; a text that
\* is not in the table is not JSON
ParseTable ==
    { [text |-> "[{\"fieldName\":\"temp\",\"datatype\":\"number\",\"value\":25}]",
       value |-> Temp25],
      [text |-> "[{\"fieldName\":\"power\",\"datatype\":\"boolean\",\"value\":\"false\"}]",
       value |-> PowerStrFalse],
      [text |-> "[{\"fieldName\":\"temp\",\"datatype\":\"number\"}]",
       value |-> NoValue],
      [text |-> "{\"fieldName\":\"temp\",\"datatype\":\"number\",\"value\":25}",
       value |-> NotArray],
      [text |-> "[{\"fieldName\":\"temp\",\"datatype\":\"number\",\"value\":21,\"unit\":\"C\"}]",
       value |-> TempUnit],
      [text |-> "[{\"fieldName\":\"temp\",\"datatype\":\"number\",\"value\":null}]",
       value |-> NullValue],
      [text |-> "[{\"fieldName\":7,\"datatype\":\"number\",\"value\":21}]",
       value |-> NumName],
      [text |-> "[\n    {\n        \"fieldName\": \"temp\",\n        \"datatype\": \"number\",\n        \"value\": 21,\n        \"unit\": \"C\"\n    }\n]",
       value |-> TempUnit],
      [text |-> "[\n    {\n        \"fieldName\": \"temp\",\n        \"datatype\": \"number\",\n        \"value\": 21\n    }\n]",
       value |-> Temp21],
      [text |-> "[\n    {\n        \"fieldName\": \"temp\",\n        \"datatype\": \"number\",\n        \"value\": 25\n    }\n]",
       value |-> Temp25],
      [text |-> "[\n    {\n        \"fieldName\": \"power\",\n        \"datatype\": \"boolean\",\n        \"value\": true\n    }\n]",
       value |-> PowerTrue],
      [text |-> "[\n    {\n        \"fieldName\": \"power\",\n        \"datatype\": \"boolean\",\n        \"value\": \"false\"\n    }\n]",
       value |-> PowerStrFalse] }

JSONDecodeError == [k |-> "JSONDecodeError", v |-> "raised"]

json_loads(text) ==
    IF \E p \in ParseTable : p.text = text
    THEN (CHOOSE p \in ParseTable : p.text = text).value
    ELSE JSONDecodeError

\* json.dumps(value, indent=4) on the state values a device can hold
json_dumps(value) ==
    CASE value = Temp21 ->
           "[\n    {\n        \"fieldName\": \"temp\",\n        \"datatype\": \"number\",\n        \"value\": 21\n    }\n]"
      [] value = Temp25 ->
           "[\n    {\n        \"fieldName\": \"temp\",\n        \"datatype\": \"number\",\n        \"value\": 25\n    }\n]"
      [] value = PowerTrue ->
           "[\n    {\n        \"fieldName\": \"power\",\n        \"datatype\": \"boolean\",\n        \"value\": true\n    }\n]"
      [] value = PowerStrFalse ->
           "[\n    {\n        \"fieldName\": \"power\",\n        \"datatype\": \"boolean\",\n        \"value\": \"false\"\n    }\n]"
      [] value = TempUnit ->
           "[\n    {\n        \"fieldName\": \"temp\",\n        \"datatype\": \"number\",\n        \"value\": 21,\n        \"unit\": \"C\"\n    }\n]"

\* a schema with "additionalProperties": false
ValidItemClosed(item) ==
    /\ item.k = "object"
    /\ DOMAIN item.v = {"fieldName", "datatype", "value"}
    /\ item.v.fieldName.k = "string"
    /\ item.v.datatype.k = "string"
    /\ Cardinality({t \in {"string", "number", "boolean"} : item.v.value.k = t}) = 1

\* jsonschema validate(instance, DEVICE_STATE_SCHEMA): TRUE iff no
\* ValidationError
ValidItem(item) ==
    /\ item.k = "object"
    /\ {"fieldName", "datatype", "value"} \subseteq DOMAIN item.v
    /\ item.v.fieldName.k = "string"
    /\ item.v.datatype.k = "string"
    /\ Cardinality({t \in {"string", "number", "boolean"} : item.v.value.k = t}) = 1

DEVICE_STATE_SCHEMA(instance) ==
    /\ instance.k = "array"
    /\ \A i \in 1..Len(instance.v) : ValidItem(instance.v[i])

-----------------------------------------------------------------------------
(* Bulk load *)

Addresses == {"10.0.0.5", "10.0.0.9"}

\* state column literal of a device's row in unconnected_iot_devices.csv:
\* 10.0.0.5 is a thermometer, 10.0.0.9 a switch
CsvStateText(ip_address) ==
    IF ip_address = "10.0.0.5"
    THEN "[{\"fieldName\":\"temp\",\"datatype\":\"number\",\"value\":21}]"
    ELSE "[{\"fieldName\":\"power\",\"datatype\":\"boolean\",\"value\":\"false\"}]"

csv_loads(text) ==
    IF text = "[{\"fieldName\":\"temp\",\"datatype\":\"number\",\"value\":21}]"
    THEN Temp21
    ELSE PowerStrFalse

CsvRows ==
    { [ipAddress |-> a, name |-> "Lamp", description |-> "bulk",
       state |-> CsvStateText(a), connected |-> c,
       status |-> "Off", faultStatus |-> "Ok"] :
      a \in Addresses, c \in {"true", "false"} }

\* Python truth value of a JSON scalar
py_bool(j) ==
    CASE j.k = "string" -> j.v # ""
      [] j.k = "number" -> j.v # 0
      [] j.k = "boolean" -> j.v
      [] OTHER -> FALSE

CoerceEntry(entry) ==
    IF entry.v.datatype = JStr("boolean")
    THEN [entry EXCEPT !.v.value = JBool(py_bool(entry.v.value))]
    ELSE entry

CoerceState(state) ==
    JArr([i \in 1..Len(state.v) |-> CoerceEntry(state.v[i])])

LoadRow(row) ==
    [ipAddress |-> row.ipAddress, name |-> row.name,
     description |-> row.description,
     state |-> CoerceState(csv_loads(row.state)),
     connected |-> (row.connected = "true"),
     status |-> row.status, faultStatus |-> row.faultStatus]

read_unconnected_iot_devices(rows) ==
    [i \in 1..Len(rows) |-> LoadRow(rows[i])]

\* the csv files: up to MaxBulk rows, no address twice
CsvFiles ==
    UNION { { rows \in [1..n -> CsvRows] :
                \A i, j \in 1..n : i # j => rows[i].ipAddress # rows[j].ipAddress }
            : n \in 0..MaxBulk }

-----------------------------------------------------------------------------
(* The socket.io client *)

\* a device dict without its "connected" key
Payload(device) ==
    [ipAddress |-> device.ipAddress, name |-> device.name,
     description |-> device.description, state |-> device.state,
     status |-> device.status, faultStatus |-> device.faultStatus]

\* sio.emit(event, data): the call is recorded; on a client that is not
\* connected the packet does not leave, and the library either raises
\* BadNamespaceError or drops it, by its version (raises)
sio_emit(st, event, data, raises) ==
    [st EXCEPT !.calls = Append(@, [event |-> event, data |-> data,
                                    sent |-> st.sio_connected]),
               !.error = IF ~st.sio_connected /\ raises
                         THEN "BadNamespaceError" ELSE @]

-----------------------------------------------------------------------------
(* SpoofApp *)

\* A table row is its seven items. The handlers read back the text of the
\* address item (column 1) only; the items of the other columns are written
\* and never read, and are kept as Item without their text. The text of the
\* item a handler was called on is st.shown.
NoItem == "<no item>"
Item == "<item>"
EmptyRow == <<NoItem, NoItem, NoItem, NoItem, NoItem, NoItem, NoItem>>
Shown(col, text) == IF col = 1 THEN text ELSE Item

\* index in devs of the first device with this address, 0 for None
search_devices(devs, ip_address) ==
    IF \E i \in 1..Len(devs) : devs[i].ipAddress = ip_address
    THEN CHOOSE i \in 1..Len(devs) :
            /\ devs[i].ipAddress = ip_address
            /\ \A j \in 1..(i - 1) : devs[j].ipAddress # ip_address
    ELSE 0

\* a forgotten "connected" test
send_iot_device_update_unconnected(st, i, raises) ==
    sio_emit(st, "spoof_app_iot_device_update", Payload(st.devices[i]), raises)

\* a forgotten del updated_device["connected"]
send_iot_device_update_whole(st, i, raises) ==
    IF ~st.devices[i].connected
    THEN st
    ELSE sio_emit(st, "spoof_app_iot_device_update", st.devices[i], raises)

send_iot_device_update(st, i, raises) ==
    IF ~st.devices[i].connected
    THEN st
    ELSE sio_emit(st, "spoof_app_iot_device_update", Payload(st.devices[i]), raises)

\* a forgotten filter on "connected"
send_unconnected_iot_devices_all(st, raises) ==
    IF ~st.connected
    THEN st
    ELSE sio_emit(st, "unconnected_iot_devices",
                  [i \in 1..Len(st.devices) |-> Payload(st.devices[i])], raises)

send_unconnected_iot_devices(st, raises) ==
    IF ~st.connected
    THEN st
    ELSE LET unconnected_iot_devices ==
                 SelectSeq(st.devices, LAMBDA device : ~device.connected)
         IN sio_emit(st, "unconnected_iot_devices",
                     [i \in 1..Len(unconnected_iot_devices) |->
                         Payload(unconnected_iot_devices[i])],
                     raises)

RECURSIVE handle_cell_change(_, _, _, _, _)

\* table.setItem(row, col, QTableWidgetItem(text)); the table emits
\* itemChanged, which runs handle_cell_change
setItem(st, row, col, text, raises) ==
    handle_cell_change([st EXCEPT !.table[row][col + 1] = Shown(col, text),
                                  !.shown = text],
                       row, col, text, raises)

\* the "except ValidationError" branch and the two "revert" branches
Revert(st, row, col, text, raises) ==
    LET reverted == setItem([st EXCEPT !.internal_change = TRUE], row, col, text, raises)
    IN [reverted EXCEPT !.internal_change = FALSE]

\* a forgotten status test
StatusRejectedNever(text) == FALSE

\* line 226 and line 235: the texts the status and the fault cells refuse
StatusRejected(text) == text # "On" /\ text # "Off"
FaultRejected(text) == text # "Ok" /\ text # "Fault"

handle_cell_change(st, row, col, text, raises) ==
    IF st.internal_change THEN st
    ELSE
    LET ip_address_item == st.table[row][2] IN
    IF ip_address_item = NoItem THEN st
    ELSE
    LET i == search_devices(st.devices, ip_address_item) IN
    IF i = 0 THEN st
    ELSE
    CASE col = 4 ->
           LET instance == json_loads(text) IN
           IF instance.k = "JSONDecodeError"
           THEN [st EXCEPT !.error = "JSONDecodeError"]
           ELSE IF ~DEVICE_STATE_SCHEMA(instance)
           THEN Revert(st, row, col, json_dumps(st.devices[i].state), raises)
           ELSE send_iot_device_update(
                    [st EXCEPT !.devices[i].state = json_loads(text)], i, raises)
      [] col = 5 ->
           IF StatusRejected(text)
           THEN Revert(st, row, col, st.devices[i].status, raises)
           ELSE send_iot_device_update(
                    [st EXCEPT !.devices[i].status = text], i, raises)
      [] col = 6 ->
           IF FaultRejected(text)
           THEN Revert(st, row, col, st.devices[i].faultStatus, raises)
           ELSE send_iot_device_update(
                    [st EXCEPT !.devices[i].faultStatus = text], i, raises)
      [] OTHER -> send_iot_device_update(st, i, raises)

\* sio.connect(SERVER_URL): a client that is connected already raises
\* ConnectionError, and so does a server that does not answer (~accepted)
ConnectionError(st, accepted) == st.sio_connected \/ ~accepted

\* a ConnectionError that is swallowed: the handshake goes on
connect_handler_regardless(st, accepted) ==
    IF ConnectionError(st, accepted)
    THEN send_unconnected_iot_devices([st EXCEPT !.connected = TRUE], TRUE)
    ELSE send_unconnected_iot_devices(
             [st EXCEPT !.sio_connected = TRUE, !.connected = TRUE], TRUE)

connect_handler(st, accepted) ==
    IF ConnectionError(st, accepted)
    THEN st
    ELSE send_unconnected_iot_devices(
             [st EXCEPT !.sio_connected = TRUE, !.connected = TRUE], TRUE)

\* a disconnect that marks every device unconnected again
disconnect_handler_resets(st) ==
    IF ~st.connected
    THEN st
    ELSE [st EXCEPT !.sio_connected = FALSE, !.connected = FALSE,
                    !.devices = [i \in 1..Len(@) |-> [@[i] EXCEPT !.connected = FALSE]]]

disconnect_handler(st) ==
    IF ~st.connected
    THEN st
    ELSE [st EXCEPT !.sio_connected = FALSE, !.connected = FALSE]

\* the text populate_table puts in column col of a device's row
CellText(device, col) ==
    CASE col = 0 -> IF device.connected THEN "True" ELSE "False"
      [] col = 1 -> device.ipAddress
      [] col = 2 -> device.name
      [] col = 3 -> device.description
      [] col = 4 -> json_dumps(device.state)
      [] col = 5 -> device.status
      [] col = 6 -> device.faultStatus

\* table.setRowCount(n)
setRowCount(tbl, n) ==
    [r \in 1..n |-> IF r <= Len(tbl) THEN tbl[r] ELSE EmptyRow]

\* the setItem loop of populate_table, cells k..7*n in row order
RECURSIVE SetItems(_, _, _)
SetItems(st, k, raises) ==
    IF k > 7 * Len(st.devices) THEN st
    ELSE LET row == ((k - 1) \div 7) + 1
             col == (k - 1) % 7
         IN SetItems(setItem(st, row, col, CellText(st.devices[row], col), raises),
                     k + 1, raises)

\* the setFlags loop of populate_table: item.setFlags makes the table emit
\* itemChanged for the cells of columns 0..3
RECURSIVE SetFlags(_, _, _)
SetFlags(st, k, raises) ==
    IF k > 4 * Len(st.table) THEN st
    ELSE LET row == ((k - 1) \div 4) + 1
             col == (k - 1) % 4
         IN SetFlags(IF st.table[row][col + 1] = NoItem THEN st
                     ELSE handle_cell_change(st, row, col,
                                             CellText(st.devices[row], col), raises),
                     k + 1, raises)

\* self.internal_change = False placed before the setFlags loop
populate_table_early(st, raises) ==
    LET guarded == [st EXCEPT !.internal_change = TRUE,
                              !.table = setRowCount(@, Len(st.devices))]
        items == [SetItems(guarded, 1, raises) EXCEPT !.internal_change = FALSE]
    IN SetFlags(items, 1, raises)

\* a forgotten self.internal_change = True
populate_table_unguarded(st, raises) ==
    LET sized == [st EXCEPT !.table = setRowCount(@, Len(st.devices))]
        filled == SetFlags(SetItems(sized, 1, raises), 1, raises)
    IN [filled EXCEPT !.internal_change = FALSE]

populate_table(st, raises) ==
    LET guarded == [st EXCEPT !.internal_change = TRUE,
                              !.table = setRowCount(@, Len(st.devices))]
        filled == SetFlags(SetItems(guarded, 1, raises), 1, raises)
    IN [filled EXCEPT !.internal_change = FALSE]

\* the incoming dict with its "connected" key set
Acknowledged(device) ==
    [ipAddress |-> device.ipAddress, name |-> device.name,
     description |-> device.description, state |-> device.state,
     status |-> device.status, faultStatus |-> device.faultStatus,
     connected |-> TRUE]

\* a search done once, before the loop
MergeFromStale(devs, snapshot, k) ==
    LET rest == SubSeq(snapshot, k, Len(snapshot))
        fresh == SelectSeq(rest, LAMBDA device : search_devices(devs, device.ipAddress) = 0)
    IN devs \o [i \in 1..Len(fresh) |-> Acknowledged(fresh[i])]

\* a forgotten search
MergeFromAlways(devs, snapshot, k) ==
    LET rest == SubSeq(snapshot, k, Len(snapshot))
    IN devs \o [i \in 1..Len(rest) |-> Acknowledged(rest[i])]

\* the loop of receive_connected_iot_devices over devices[k..]
RECURSIVE MergeFrom(_, _, _)
RECURSIVE MergeFromMarks(_, _, _)
RECURSIVE MergeFromPrepend(_, _, _)
\* a merge that marks a device already in the registry as connected
MergeFromMarks(devs, snapshot, k) ==
    IF k > Len(snapshot) THEN devs
    ELSE LET i == search_devices(devs, snapshot[k].ipAddress)
         IN IF i = 0
            THEN MergeFromMarks(Append(devs, Acknowledged(snapshot[k])), snapshot, k + 1)
            ELSE MergeFromMarks([devs EXCEPT ![i].connected = TRUE], snapshot, k + 1)

\* a merge that puts a new device in front
MergeFromPrepend(devs, snapshot, k) ==
    IF k > Len(snapshot) THEN devs
    ELSE IF search_devices(devs, snapshot[k].ipAddress) = 0
         THEN MergeFromPrepend(<<Acknowledged(snapshot[k])>> \o devs, snapshot, k + 1)
         ELSE MergeFromPrepend(devs, snapshot, k + 1)

MergeFrom(devs, snapshot, k) ==
    IF k > Len(snapshot) THEN devs
    ELSE LET device == Acknowledged(snapshot[k])
         IN MergeFrom(IF search_devices(devs, device.ipAddress) = 0
                      THEN Append(devs, device) ELSE devs,
                      snapshot, k + 1)

receive_connected_iot_devices(devs, snapshot) == MergeFrom(devs, snapshot, 1)

\* a forgotten device["status"] = update["status"]
receive_iot_device_update_state(devs, update) ==
    LET i == search_devices(devs, update.ipAddress) IN
    IF i # 0
    THEN [devs EXCEPT ![i].state = update.state,
                      ![i].connected = TRUE]
    ELSE devs

receive_iot_device_update(devs, update) ==
    LET i == search_devices(devs, update.ipAddress) IN
    IF i # 0
    THEN [devs EXCEPT ![i].state = update.state,
                      ![i].status = update.status,
                      ![i].connected = TRUE]
    ELSE devs

-----------------------------------------------------------------------------
(* Inputs *)

StateTexts ==
    { "[{\"fieldName\":\"power\",\"datatype\":\"boolean\",\"value\":\"false\"}]",
      "[{\"fieldName\":\"temp\",\"datatype\":\"number\"}]",
      "[{" }
StatusTexts == {"On", "Off", "Standby"}
FaultTexts == {"Fault", "Broken"}

EditTexts(col) ==
    CASE col = 4 -> StateTexts
      [] col = 5 -> StatusTexts
      [] col = 6 -> FaultTexts

\* every text the operator types into a state cell: the compact texts json.loads
\* knows, and one that is not JSON
CandidateTexts ==
    ({ p.text : p \in ParseTable }
        \ { json_dumps(v) : v \in {Temp21, Temp25, PowerTrue, PowerStrFalse, TempUnit} })
    \cup {"[{"}

\* the devices a server reports, without a "connected" key
RemoteDevices ==
    [ipAddress : Addresses, name : {"Lamp"}, description : {"remote"},
     state : {Temp25}, status : {"On"}, faultStatus : {"Ok"}]

Snapshots == UNION { [1..n -> RemoteDevices] : n \in 0..MaxSnapshotLen }

Updates ==
    { [ipAddress |-> a,
       state |-> PowerStrFalse,
       status |-> s] : a \in Addresses, s \in {"On", "Off"} }

-----------------------------------------------------------------------------
(* The state machine *)

\* the application state a handler starts from
St == [devices |-> devices, table |-> table, internal_change |-> internal_change,
       connected |-> connected, sio_connected |-> sio_connected,
       calls |-> <<>>, error |-> "none", shown |-> ""]

\* the socket.io thread with no server_iot_device_update in hand
IdleThread == [pc |-> "idle", update |-> <<>>, device |-> 0]

Becomes(st) ==
    /\ devices' = st.devices
    /\ table' = st.table
    /\ internal_change' = st.internal_change
    /\ connected' = st.connected
    /\ sio_connected' = st.sio_connected
    /\ calls' = st.calls
    /\ error' = st.error
    /\ UNCHANGED update_thread

\* SpoofApp.__init__: load the csv file, build the table
Init ==
    \E rows \in CsvFiles :
       LET loaded == [devices |-> read_unconnected_iot_devices(rows),
                      table |-> <<>>, internal_change |-> TRUE,
                      connected |-> FALSE, sio_connected |-> FALSE,
                      calls |-> <<>>, error |-> "none", shown |-> ""]
           built == populate_table(loaded, TRUE)
       IN /\ devices = built.devices
          /\ table = built.table
          /\ internal_change = FALSE
          /\ connected = FALSE
          /\ sio_connected = FALSE
          /\ update_pending = 0
          /\ calls = <<>>
          /\ error = "none"
          /\ shown = ""
          /\ last = [op |-> "__init__", arg |-> <<>>]
          /\ update_thread = IdleThread

\* the operator edits a cell of column 4, 5 or 6: itemChanged
LocalEdit ==
    \E row \in 1..Len(table), col \in {4, 5, 6} :
      \E text \in EditTexts(col), raises \in (IF sio_connected THEN {TRUE} ELSE BOOLEAN) :
        /\ Becomes(setItem(St, row, col, text, raises))
        /\ shown' = setItem(St, row, col, text, raises).shown
        /\ last' = [op |-> "handle_cell_change", arg |-> <<row, col, text>>]
        /\ UNCHANGED update_pending

\* File > Connect
Connect ==
    \E accepted \in BOOLEAN :
       /\ Becomes(connect_handler(St, accepted))
       /\ shown' = ""
       /\ last' = [op |-> "connect_handler",
                   arg |-> <<IF ConnectionError(St, accepted)
                             THEN "ConnectionError" ELSE "ok">>]
       /\ UNCHANGED update_pending

\* File > Disconnect, closeEvent
Disconnect ==
    /\ Becomes(disconnect_handler(St))
    /\ shown' = ""
    /\ last' = [op |-> "disconnect_handler", arg |-> <<>>]
    /\ UNCHANGED update_pending

\* the server's connected_iot_devices event
ReceiveSnapshot ==
    \E snapshot \in Snapshots :
       /\ sio_connected
       /\ update_pending < MaxPending
       /\ Becomes([St EXCEPT !.devices = receive_connected_iot_devices(@, snapshot)])
       /\ update_pending' = update_pending + 1
       /\ shown' = ""
       /\ last' = [op |-> "receive_connected_iot_devices", arg |-> snapshot]

\* the server's server_iot_device_update event
ReceiveUpdate ==
    \E update \in Updates :
       /\ sio_connected
       /\ update_pending < MaxPending
       /\ Becomes([St EXCEPT !.devices = receive_iot_device_update(@, update)])
       /\ update_pending' = update_pending + 1
       /\ shown' = ""
       /\ last' = [op |-> "receive_iot_device_update", arg |-> <<update>>]

\* the queued update_table signal reaches populate_table
PopulateTable ==
    /\ update_pending > 0
    /\ Becomes(populate_table(St, TRUE))
    /\ update_pending' = update_pending - 1
    /\ shown' = ""
    /\ last' = [op |-> "populate_table", arg |-> <<>>]

Next ==
    \/ LocalEdit
    \/ Connect
    \/ Disconnect
    \/ ReceiveSnapshot
    \/ ReceiveUpdate
    \/ PopulateTable

Spec == Init /\ [][Next]_vars

\* the operator edits a state cell: handle_cell_change, case 4
StateEdit ==
    \E row \in 1..Len(table), text \in CandidateTexts :
      \E raises \in (IF sio_connected THEN {TRUE} ELSE BOOLEAN) :
        /\ Becomes(setItem(St, row, 4, text, raises))
        /\ shown' = setItem(St, row, 4, text, raises).shown
        /\ last' = [op |-> "handle_cell_change", arg |-> <<row, 4, text>>]
        /\ UNCHANGED update_pending

\* the application with no server event arriving
NextEdits ==
    \/ StateEdit
    \/ Connect
    \/ Disconnect

SpecEdits == Init /\ [][NextEdits]_vars

-----------------------------------------------------------------------------
(* The handlers of the main thread and receive_iot_device_update on the   *)
(* socket.io thread, one statement of the latter at a time                 *)

\* a step of the socket.io thread: it makes no sio.emit call and touches
\* neither the table nor the flags
ThreadStep(devs, pending, thread) ==
    /\ devices' = devs
    /\ update_pending' = pending
    /\ update_thread' = thread
    /\ calls' = <<>>
    /\ error' = "none"
    /\ shown' = ""
    /\ last' = [op |-> "receive_iot_device_update", arg |-> update_thread'.update]
    /\ UNCHANGED <<table, internal_change, connected, sio_connected>>

\* line 274: device = self.search_devices(update["ipAddress"])
UpdateSearch ==
    \E update \in Updates :
       LET i == search_devices(devices, update.ipAddress) IN
       /\ sio_connected
       /\ update_thread.pc = "idle"
       /\ update_pending < MaxPending
       /\ ThreadStep(devices, update_pending,
                     [pc |-> IF i = 0 THEN "emit" ELSE "state",
                      update |-> <<update>>, device |-> i])

\* line 276: device["state"] = update["state"]
UpdateState ==
    /\ update_thread.pc = "state"
    /\ ThreadStep([devices EXCEPT ![update_thread.device].state =
                                      update_thread.update[1].state],
                  update_pending, [update_thread EXCEPT !.pc = "status"])

\* line 277: device["status"] = update["status"]
UpdateStatus ==
    /\ update_thread.pc = "status"
    /\ ThreadStep([devices EXCEPT ![update_thread.device].status =
                                      update_thread.update[1].status],
                  update_pending, [update_thread EXCEPT !.pc = "connected"])

\* line 278: device["connected"] = True
UpdateConnected ==
    /\ update_thread.pc = "connected"
    /\ ThreadStep([devices EXCEPT ![update_thread.device].connected = TRUE],
                  update_pending, [update_thread EXCEPT !.pc = "emit"])

\* line 280: self.update_table.emit()
UpdateSignal ==
    /\ update_thread.pc = "emit"
    /\ ThreadStep(devices, update_pending + 1, IdleThread)

NextThreads ==
    \/ LocalEdit
    \/ Connect
    \/ Disconnect
    \/ PopulateTable
    \/ UpdateSearch
    \/ UpdateState
    \/ UpdateStatus
    \/ UpdateConnected
    \/ UpdateSignal

SpecThreads == Init /\ [][NextThreads]_vars

-----------------------------------------------------------------------------
(* What the last handler was called on *)

IsEdit == last.op = "handle_cell_change"
EditRow == last.arg[1]
EditCol == last.arg[2]
EditText == last.arg[3]

ValidStateText == "[{\"fieldName\":\"power\",\"datatype\":\"boolean\",\"value\":\"false\"}]"

\* the edits the specification accepts, and the value each one stores
Acceptable(col, text) ==
    \/ col = 4 /\ text = ValidStateText
    \/ col = 5 /\ text \in {"On", "Off"}
    \/ col = 6 /\ text \in {"Ok", "Fault"}

Applied(device, col, text) ==
    CASE col = 4 -> device.state = PowerStrFalse
      [] col = 5 -> device.status = text
      [] col = 6 -> device.faultStatus = text

AcceptedEdit == IsEdit /\ Acceptable(EditCol, EditText)
RejectedEdit == IsEdit /\ ~Acceptable(EditCol, EditText)

PayloadFields == {"ipAddress", "name", "description", "state", "status", "faultStatus"}

IsDelta(call) == call.event = "spoof_app_iot_device_update"
IsBulk(call) == call.event = "unconnected_iot_devices"

-----------------------------------------------------------------------------
(* Claims *)

\* C1: the registry never holds two devices with the same address, whatever
\* snapshots are merged (an address twice in one snapshot, an address already
\* present) between remote updates and local edits
C1_UniqueAddresses ==
    \A i, j \in 1..Len(devices) :
       i # j => devices[i].ipAddress # devices[j].ipAddress

\* a snapshot that named a new address twice has been merged
C1_Witness ==
    /\ last.op = "receive_connected_iot_devices"
    /\ Len(last.arg) = 2
    /\ last.arg[1].ipAddress = last.arg[2].ipAddress
    /\ \E i \in 1..Len(devices) :
          /\ devices[i].ipAddress = last.arg[1].ipAddress
          /\ devices[i].description = "remote"

\* C2: handling a remote snapshot or a remote update, and the table refresh
\* it signals with the cell-change notifications of that refresh, makes no
\* sio.emit call at all
C2_NoEcho ==
    last.op \in {"receive_connected_iot_devices", "receive_iot_device_update",
                 "populate_table"}
      => calls = <<>>

\* the table was refreshed with a connected device in it, the channel up
C2_Witness ==
    /\ last.op = "populate_table"
    /\ sio_connected
    /\ \E i \in 1..Len(devices) : devices[i].connected
    /\ \E i \in 1..Len(devices) : ~devices[i].connected

\* C3: a rejected local edit leaves every device as it was and makes no
\* sio.emit call
C3_RejectedEditChangesNothing ==
    [][RejectedEdit' => devices' = devices /\ calls' = <<>>]_vars

\* a state text that fails the schema was typed on a connected device while
\* the channel was up
C3_Witness ==
    /\ RejectedEdit
    /\ EditCol = 4
    /\ EditText = "[{\"fieldName\":\"temp\",\"datatype\":\"number\"}]"
    /\ devices[EditRow].connected
    /\ sio_connected

\* C4: every device delta is for a device whose connected flag is true, and
\* an accepted edit of an unconnected device changes the device and makes no
\* sio.emit call
C4_DeltaOnlyForConnected ==
    /\ \A k \in 1..Len(calls) :
          IsDelta(calls[k]) =>
             \E i \in 1..Len(devices) :
                /\ devices[i].connected
                /\ devices[i].ipAddress = calls[k].data.ipAddress
    /\ (AcceptedEdit /\ ~devices[EditRow].connected) =>
          /\ Applied(devices[EditRow], EditCol, EditText)
          /\ calls = <<>>

\* an accepted status edit of an unconnected device, the channel up
C4_Witness ==
    /\ AcceptedEdit
    /\ EditCol = 5
    /\ EditText = "On"
    /\ ~devices[EditRow].connected
    /\ sio_connected

\* the bulk announcement the specification asks for: the unconnected devices
\* of devs from position k on, in order, without the connected field
RECURSIVE SnapshotUnconnected(_, _)
SnapshotUnconnected(devs, k) ==
    IF k > Len(devs) THEN <<>>
    ELSE (IF devs[k].connected THEN <<>>
          ELSE <<[ipAddress |-> devs[k].ipAddress, name |-> devs[k].name,
                  description |-> devs[k].description, state |-> devs[k].state,
                  status |-> devs[k].status, faultStatus |-> devs[k].faultStatus]>>)
         \o SnapshotUnconnected(devs, k + 1)

\* C5: a successful connect makes exactly one sio.emit call, the bulk
\* announcement of the unconnected devices in registry order with their
\* current values and no connected field; no bulk announcement is made
\* otherwise, and none names a connected device
C5_BulkAnnouncement ==
    /\ (last.op = "connect_handler" /\ last.arg = <<"ok">>) =>
          /\ Len(calls) = 1
          /\ IsBulk(calls[1])
          /\ calls[1].sent
          /\ calls[1].data = SnapshotUnconnected(devices, 1)
    /\ \A k \in 1..Len(calls) :
          IsBulk(calls[k]) =>
             /\ last.op = "connect_handler"
             /\ \A n \in 1..Len(calls[k].data) :
                   /\ DOMAIN calls[k].data[n] = PayloadFields
                   /\ \A i \in 1..Len(devices) :
                         devices[i].ipAddress = calls[k].data[n].ipAddress
                            => ~devices[i].connected

\* a connect with a connected device and an unconnected device that was
\* edited before the connect
C5_Witness ==
    /\ last.op = "connect_handler"
    /\ last.arg = <<"ok">>
    /\ \E i, j \in 1..Len(devices) :
          /\ devices[i].connected
          /\ ~devices[j].connected
          /\ devices[j].status = "On"
          /\ devices[j].state = PowerStrFalse

\* C6: an accepted edit of a connected device while the channel is up makes
\* exactly one sio.emit call, a device delta that is sent and carries every
\* field of the device but connected, with the values after the edit
C6_DeltaAfterEdit ==
    (AcceptedEdit /\ devices[EditRow].connected /\ sio_connected) =>
       /\ Applied(devices[EditRow], EditCol, EditText)
       /\ Len(calls) = 1
       /\ IsDelta(calls[1])
       /\ calls[1].sent
       /\ DOMAIN calls[1].data = PayloadFields
       /\ \A f \in PayloadFields : calls[1].data[f] = devices[EditRow][f]
       /\ error = "none"

\* an accepted state edit of a connected device whose fault cell had been
\* edited before, the channel up
C6_Witness ==
    /\ AcceptedEdit
    /\ EditCol = 4
    /\ devices[EditRow].connected
    /\ devices[EditRow].faultStatus = "Fault"
    /\ sio_connected

\* C7: with the channel down, an accepted edit of a connected device is
\* applied, no sio.emit call is made and no error results
C7_DroppedWhenDisconnected ==
    (AcceptedEdit /\ devices[EditRow].connected /\ ~sio_connected) =>
       /\ Applied(devices[EditRow], EditCol, EditText)
       /\ calls = <<>>
       /\ error = "none"

\* C8: merging a snapshot twice in a row gives the registry that merging it
\* once gives: for the snapshot that was merged last, and for any snapshot
\* merged into the registry as it is
C8_MergeIdempotent ==
    /\ last.op = "receive_connected_iot_devices" =>
          receive_connected_iot_devices(devices, last.arg) = devices
    /\ \A snapshot \in Snapshots :
          LET once == receive_connected_iot_devices(devices, snapshot)
          IN receive_connected_iot_devices(once, snapshot) = once

\* a snapshot of two addresses was merged and added a device
C8_Witness ==
    /\ last.op = "receive_connected_iot_devices"
    /\ Len(last.arg) = 2
    /\ last.arg[1].ipAddress # last.arg[2].ipAddress
    /\ Len(devices) = 2
    /\ devices[1].description = "bulk"
    /\ devices[2].description = "remote"

\* C9: a remote update for a known address overwrites state and status of
\* that device and sets its connected flag, and changes nothing else; for
\* an unknown address it changes nothing
C9_RemoteUpdateFrame ==
    [][last'.op = "receive_iot_device_update" =>
         LET update == last'.arg[1] IN
         /\ Len(devices') = Len(devices)
         /\ \A i \in 1..Len(devices) :
               IF devices[i].ipAddress = update.ipAddress
               THEN devices'[i] = [devices[i] EXCEPT !.state = update.state,
                                                     !.status = update.status,
                                                     !.connected = TRUE]
               ELSE devices'[i] = devices[i]]_vars

\* an update reached an unconnected bulk device whose fault was edited
C9_Witness ==
    /\ last.op = "receive_iot_device_update"
    /\ \E i \in 1..Len(devices) :
          /\ devices[i].ipAddress = last.arg[1].ipAddress
          /\ devices[i].description = "bulk"
          /\ devices[i].faultStatus = "Fault"
          /\ devices[i].status = "Off"
          /\ devices[i].connected
    /\ \E j \in 1..Len(devices) : ~devices[j].connected

\* C10: a device whose connected flag is true keeps its place and its flag
\* in every later state
C10_ConnectedIsOneWay ==
    [][\A i \in 1..Len(devices) :
          devices[i].connected =>
             /\ i <= Len(devices')
             /\ devices'[i].ipAddress = devices[i].ipAddress
             /\ devices'[i].connected]_vars

\* the channel was closed with a connected device in the registry
C10_Witness ==
    /\ last.op = "disconnect_handler"
    /\ ~connected
    /\ \E i \in 1..Len(devices) :
          devices[i].connected /\ devices[i].description = "remote"

\* C11: a device whose connected flag is false has not been reported to the
\* remote side and has not been acknowledged by it; stated for the last
\* handler: none of its sio.emit calls that left names the device, and it
\* did not merge a snapshot that names the device
C11_UnconnectedIsUnknownToRemote ==
    \A i \in 1..Len(devices) :
       ~devices[i].connected =>
          /\ \A k \in 1..Len(calls) :
                (calls[k].sent /\ IsDelta(calls[k])) =>
                   calls[k].data.ipAddress # devices[i].ipAddress
          /\ \A k \in 1..Len(calls) :
                (calls[k].sent /\ IsBulk(calls[k])) =>
                   \A n \in 1..Len(calls[k].data) :
                      calls[k].data[n].ipAddress # devices[i].ipAddress
          /\ last.op = "receive_connected_iot_devices" =>
                \A n \in 1..Len(last.arg) :
                   last.arg[n].ipAddress # devices[i].ipAddress

\* C12: every state entry of datatype "boolean" in the registry holds a
\* boolean value
C12_BooleanAtRest ==
    \A i \in 1..Len(devices) :
       \A n \in 1..Len(devices[i].state.v) :
          devices[i].state.v[n].v.datatype = JStr("boolean")
             => devices[i].state.v[n].v.value.k = "boolean"

\* C13: a connect attempt that fails makes no sio.emit call and leaves the
\* registry, self.connected and the client's connection as they were
C13_FailedConnectChangesNothing ==
    [][(last'.op = "connect_handler" /\ last'.arg = <<"ConnectionError">>) =>
          /\ calls' = <<>>
          /\ devices' = devices
          /\ connected' = connected
          /\ sio_connected' = sio_connected]_vars

\* a connect failed from the disconnected state with an unconnected device
\* in the registry
C13_Witness ==
    /\ last.op = "connect_handler"
    /\ last.arg = <<"ConnectionError">>
    /\ ~connected
    /\ \E i \in 1..Len(devices) : ~devices[i].connected

\* the validator as the specification words it: a sequence of entries each
\* carrying exactly fieldName, datatype and value, of the stated kinds
ExactlyThreeFields(item) ==
    /\ item.k = "object"
    /\ DOMAIN item.v = {"fieldName", "datatype", "value"}
    /\ item.v.fieldName.k = "string"
    /\ item.v.datatype.k = "string"
    /\ item.v.value.k \in {"string", "number", "boolean"}

\* C14: a parsed state candidate is accepted (stored as the device's state)
\* iff it is a sequence of entries each carrying exactly the three fields
\* fieldName (string), datatype (string) and value (string, number, boolean)
C14_ValidatorExactlyThreeFields ==
    (IsEdit /\ EditCol = 4 /\ json_loads(EditText) # JSONDecodeError) =>
       LET candidate == json_loads(EditText)
       IN (devices[EditRow].state = candidate)
             <=> (/\ candidate.k = "array"
                  /\ \A n \in 1..Len(candidate.v) : ExactlyThreeFields(candidate.v[n]))

\* an entry that carries at least the three fields, of the stated kinds
RequiredFields(item) ==
    /\ item.k = "object"
    /\ \A f \in {"fieldName", "datatype", "value"} : f \in DOMAIN item.v
    /\ item.v.fieldName.k = "string"
    /\ item.v.datatype.k = "string"
    /\ item.v.value.k \in {"string", "number", "boolean"}

\* C14, amended: a parsed state candidate is accepted iff it is a sequence
\* of entries each carrying at least fieldName (string), datatype (string)
\* and value (string, number, boolean); further fields do not matter
C14_ValidatorRequiredFields ==
    (IsEdit /\ EditCol = 4 /\ json_loads(EditText) # JSONDecodeError) =>
       LET candidate == json_loads(EditText)
       IN (devices[EditRow].state = candidate)
             <=> (/\ candidate.k = "array"
                  /\ \A n \in 1..Len(candidate.v) : RequiredFields(candidate.v[n]))

\* a state with an entry of four fields was typed and is now the device's
\* state
C14_Witness ==
    /\ IsEdit
    /\ EditCol = 4
    /\ json_loads(EditText) = TempUnit
    /\ devices[EditRow].state = TempUnit
    /\ error = "none"

\* C15: a rejected state edit, whether its text is not JSON or the parsed
\* value fails the schema, ends without an exception and with the state cell
\* showing the device's current state
C15_RejectedStateEditReverts ==
    (RejectedEdit /\ EditCol = 4) =>
       /\ error = "none"
       /\ shown = json_dumps(devices[EditRow].state)

\* C16: a snapshot merge keeps every record of the registry as it was,
\* connected flag included, and adds one record with connected = TRUE for
\* each address of the snapshot that the registry did not hold
C16_FirstWriterWins ==
    [][last'.op = "receive_connected_iot_devices" =>
          LET snapshot == last'.arg
              held == {devices[i].ipAddress : i \in 1..Len(devices)}
              named == {snapshot[n].ipAddress : n \in 1..Len(snapshot)}
          IN /\ Len(devices') = Len(devices) + Cardinality(named \ held)
             /\ \A i \in 1..Len(devices) : devices'[i] = devices[i]
             /\ \A i \in (Len(devices) + 1)..Len(devices') :
                   /\ devices'[i].connected
                   /\ devices'[i].ipAddress \in named \ held
             /\ \A a \in named \ held :
                   Cardinality({i \in 1..Len(devices') : devices'[i].ipAddress = a}) = 1]_vars

\* a snapshot named an unconnected bulk device and an unknown one: the
\* first kept its record, the second was added
C16_Witness ==
    /\ last.op = "receive_connected_iot_devices"
    /\ Len(last.arg) = 2
    /\ Len(devices) = 2
    /\ devices[1].description = "bulk"
    /\ ~devices[1].connected
    /\ devices[2].description = "remote"
    /\ devices[2].connected
    /\ \E n \in 1..2 : last.arg[n].ipAddress = devices[1].ipAddress

\* the first place of an address in a snapshot
FirstAt(snapshot, a) ==
    CHOOSE n \in 1..Len(snapshot) :
       /\ snapshot[n].ipAddress = a
       /\ \A m \in 1..(n - 1) : snapshot[m].ipAddress # a

\* C18: every step keeps the registry's address sequence as a prefix of the
\* new one; only a snapshot merge adds devices, in the order the snapshot
\* names them, so bulk-loaded devices stand before remote ones
C18_GrowsInOrder ==
    [][/\ Len(devices') >= Len(devices)
       /\ \A i \in 1..Len(devices) : devices'[i].ipAddress = devices[i].ipAddress
       /\ Len(devices') > Len(devices) => last'.op = "receive_connected_iot_devices"
       /\ \A i, j \in (Len(devices) + 1)..Len(devices') :
             i < j => FirstAt(last'.arg, devices'[i].ipAddress)
                         < FirstAt(last'.arg, devices'[j].ipAddress)
       /\ \A i, j \in 1..Len(devices') :
             (i < j /\ devices'[j].description = "bulk")
                => devices'[i].description = "bulk"]_vars

\* one snapshot added two devices, the one with the greater address first
C18_Witness ==
    /\ last.op = "receive_connected_iot_devices"
    /\ Len(devices) = 2
    /\ devices[1].description = "remote"
    /\ devices[1].ipAddress = "10.0.0.9"
    /\ devices[2].ipAddress = "10.0.0.5"

\* C17: the itemChanged notifications for the cells of columns 0..3
\* (connected, address, name, description), which only populate_table
\* causes, change no device and make no sio.emit call; every device delta
\* comes from an accepted edit of the state, status or faultStatus cell
C17_OtherFieldsAreSilent ==
    [][/\ last'.op = "populate_table" => (devices' = devices /\ calls' = <<>>)
       /\ (\E k \in 1..Len(calls') : IsDelta(calls'[k]))
             => (AcceptedEdit' /\ EditCol' \in {4, 5, 6})]_vars

\* populate_table set the items and the flags of the row of a connected
\* device while the client was connected
C17_Witness ==
    /\ last.op = "populate_table"
    /\ sio_connected
    /\ \E row \in 1..Len(table) :
          /\ table[row][2] # NoItem
          /\ search_devices(devices, table[row][2]) # 0
          /\ devices[search_devices(devices, table[row][2])].connected

\* a payload that holds the state of the update in hand
CarriesNewState(payload) ==
    /\ payload.ipAddress = update_thread.update[1].ipAddress
    /\ payload.state = update_thread.update[1].state

\* C19: while receive_iot_device_update has set the state of a device and
\* not yet its status and connected flag, no delta that leaves holds the
\* update's state with a status that is not the update's (a status the
\* edit itself wrote aside), and no bulk announcement lists the device, as
\* unconnected, with the update's state
C19_NoPartialUpdateSent ==
    update_thread.pc \in {"status", "connected"} =>
       \A k \in 1..Len(calls) :
          /\ (IsDelta(calls[k]) /\ CarriesNewState(calls[k].data) /\ EditCol # 5)
                => calls[k].data.status = update_thread.update[1].status
          /\ IsBulk(calls[k]) =>
                \A n \in 1..Len(calls[k].data) : ~CarriesNewState(calls[k].data[n])

\* the boolean a loaded literal stands for: "true" is true, "false" is
\* false, a boolean is itself
LiteralBoolean(j) == IF j.k = "boolean" THEN j ELSE JBool(j.v = "true")

\* C20: after the bulk load every entry of datatype "boolean" holds the
\* boolean its literal in the csv file stands for
C20_BulkLoadMatchesLiteral ==
    last.op = "__init__" =>
       \A i \in 1..Len(devices) :
          LET literal == csv_loads(CsvStateText(devices[i].ipAddress))
          IN \A n \in 1..Len(literal.v) :
                literal.v[n].v.datatype = JStr("boolean") =>
                   devices[i].state.v[n].v.value = LiteralBoolean(literal.v[n].v.value)

====
